---- MODULE Spec2Model ----
(***************************************************************************)
(* Connection lifecycle and shutdown coordination of res_mon (main.go).    *)
(*                                                                         *)
(* One process: the main goroutine runs main() -> app.serve(), serve()     *)
(* starts the shutdown goroutine, and net/http runs one wsHandler          *)
(* goroutine per accepted connection.                                      *)
(***************************************************************************)
EXTENDS Naturals, Integers, Sequences, FiniteSets, TLC

\* ----------------------------------------------------------------- bounds
NumSessions == 2
MaxSends == 2
\* time units that pass in one step of the clock
TickUnits == 5
\* longest list process.Processes() returns, largest cpuPercent, and longest
\* list disk.Partitions() returns
MaxProcs == 3
MaxCpu == 1
MaxParts == 1

\* ------------------------------------------------------ program constants
\* context.WithTimeout(context.Background(), 20*time.Second)
GraceTimeout == 20
\* websocket.CloseInternalServerErr, the only close code sendClose uses
CloseInternalServerErr == 1011

Sessions == 1..NumSessions

\* error values, identified by the text err.Error() yields
HostnameErr == "hostname error"
SnapshotErrs == {"provider error", "write error"}

VARIABLES
  srvPc,          \* main goroutine inside serve(): start, listen, recv, returned
  serveResult,    \* value serve() returned: none, nil or an error
  listening,      \* the listener accepts connections
  exitStatus,     \* process: running, ok (main returned), fatal (log.Fatal)
  goPc,           \* shutdown goroutine: waitSignal, shutdown, sendErr, wgWait, sendNil, done, killed
  shutdownErr,    \* err returned by srv.Shutdown(ctx)
  elapsed,        \* time units since context.WithTimeout was created
  wg,             \* counter of app.wg
  pc,             \* per connection: position of its wsHandler goroutine
  ctxDone,        \* per connection: r.Context() is cancelled
  started,        \* per connection: number of sendSnapshot calls begun
  inflight,       \* per connection: which sendSnapshot call is running
  wire,           \* per connection: messages handed to the connection, in order
  connClosed,     \* per connection: conn.Close() has run
  exitCause,      \* per connection: which return statement ended wsHandler
  lastErr,        \* per connection: the err that ended the handler
  quit,           \* signals buffered in the quit channel (capacity 1)
  provided,       \* what the gopsutil calls of one sendSnapshot call return
  rs,             \* the Resources value that sendSnapshot builds
  json,           \* what conn.WriteJSON(rs) encodes
  snapPc          \* position inside that sendSnapshot call

snapVars == <<provided, rs, json, snapPc>>

vars == <<srvPc, serveResult, listening, exitStatus, goPc, shutdownErr, elapsed,
          wg, pc, ctxDone, started, inflight, wire, connClosed, exitCause,
          lastErr, quit, snapVars>>

srvVars == <<srvPc, serveResult, listening, exitStatus>>
goVars == <<goPc, shutdownErr, elapsed>>
sessVars == <<pc, ctxDone, started, inflight, wire, connClosed, exitCause, lastErr>>

\* a Session exists from the successful upgrade until its handler returns
ActivePcs == {"open", "sending", "waiting"}
Active == {s \in Sessions : pc[s] \in ActivePcs}
\* connections net/http still tracks (handler running, not hijacked)
Tracked == {s \in Sessions : pc[s] = "accepted"}

Snapshot(kind) == [type |-> "snapshot", kind |-> kind, code |-> 0, reason |-> ""]

\* sendClose as it would be with the normal-closure code
sendClose_normalCode(err) ==
  [type |-> "close", kind |-> "none", code |-> 1000, reason |-> err]

\* sendClose: a close message with CloseInternalServerErr and err.Error()
sendClose(err) ==
  [type |-> "close", kind |-> "none", code |-> CloseInternalServerErr, reason |-> err]

Snapshots(s) == SelectSeq(wire[s], LAMBDA m : m.type = "snapshot")
Closes(s) == SelectSeq(wire[s], LAMBDA m : m.type = "close")

MainInit ==
  /\ srvPc = "start"
  /\ serveResult = "none"
  /\ listening = FALSE
  /\ exitStatus = "running"
  /\ goPc = "waitSignal"
  /\ shutdownErr = "none"
  /\ elapsed = 0
  /\ wg = 0
  /\ pc = [s \in Sessions |-> "idle"]
  /\ ctxDone = [s \in Sessions |-> FALSE]
  /\ started = [s \in Sessions |-> 0]
  /\ inflight = [s \in Sessions |-> "none"]
  /\ wire = [s \in Sessions |-> <<>>]
  /\ connClosed = [s \in Sessions |-> FALSE]
  /\ exitCause = [s \in Sessions |-> "none"]
  /\ lastErr = [s \in Sessions |-> "none"]
  /\ quit = 0

Running == exitStatus = "running"

\* ------------------------------------------------------------ wsHandler

\* net/http accepts a connection and starts wsHandler for it; connections
\* are numbered in the order they are accepted
Accept(s) ==
  /\ Running /\ listening /\ pc[s] = "idle"
  /\ \A o \in Sessions : o < s => pc[o] # "idle"
  /\ pc' = [pc EXCEPT ![s] = "accepted"]
  /\ UNCHANGED <<quit, snapVars, srvVars, goVars, wg, ctxDone, started, inflight, wire,
                 connClosed, exitCause, lastErr>>

\* UpgradeFail as it would be if it used sendClose like the later error paths
UpgradeFail_sendsClose(s) ==
  /\ Running /\ pc[s] = "accepted"
  /\ pc' = [pc EXCEPT ![s] = "rejected"]
  /\ exitCause' = [exitCause EXCEPT ![s] = "handshake"]
  /\ ctxDone' = [ctxDone EXCEPT ![s] = TRUE]
  /\ wire' = [wire EXCEPT ![s] = Append(@, sendClose("handshake error"))]
  /\ UNCHANGED <<quit, snapVars, srvVars, goVars, wg, started, inflight,
                 connClosed, lastErr>>

\* upgrader.Upgrade fails: http.Error, return
UpgradeFail(s) ==
  /\ Running /\ pc[s] = "accepted"
  /\ pc' = [pc EXCEPT ![s] = "rejected"]
  /\ exitCause' = [exitCause EXCEPT ![s] = "handshake"]
  /\ ctxDone' = [ctxDone EXCEPT ![s] = TRUE]
  /\ UNCHANGED <<quit, snapVars, srvVars, goVars, wg, started, inflight, wire,
                 connClosed, lastErr>>

\* upgrader.Upgrade succeeds (connection hijacked); defer conn.Close()
Upgrade(s) ==
  /\ Running /\ pc[s] = "accepted"
  /\ pc' = [pc EXCEPT ![s] = "open"]
  /\ UNCHANGED <<quit, snapVars, srvVars, goVars, wg, ctxDone, started, inflight, wire,
                 connClosed, exitCause, lastErr>>

\* HostnameFail as it would be if conn.Close were deferred after this return
HostnameFail_leavesOpen(s) ==
  /\ Running /\ pc[s] = "open"
  /\ pc' = [pc EXCEPT ![s] = "exited"]
  /\ wire' = [wire EXCEPT ![s] = Append(@, sendClose(HostnameErr))]
  /\ exitCause' = [exitCause EXCEPT ![s] = "hostname"]
  /\ lastErr' = [lastErr EXCEPT ![s] = HostnameErr]
  /\ ctxDone' = [ctxDone EXCEPT ![s] = TRUE]
  /\ UNCHANGED <<quit, snapVars, srvVars, goVars, wg, started, inflight,
                 connClosed>>

\* os.Hostname fails: sendClose(conn, err), return (deferred conn.Close)
HostnameFail(s) ==
  /\ Running /\ pc[s] = "open"
  /\ pc' = [pc EXCEPT ![s] = "exited"]
  /\ wire' = [wire EXCEPT ![s] = Append(@, sendClose(HostnameErr))]
  /\ connClosed' = [connClosed EXCEPT ![s] = TRUE]
  /\ exitCause' = [exitCause EXCEPT ![s] = "hostname"]
  /\ lastErr' = [lastErr EXCEPT ![s] = HostnameErr]
  /\ ctxDone' = [ctxDone EXCEPT ![s] = TRUE]
  /\ UNCHANGED <<quit, snapVars, srvVars, goVars, wg, started, inflight>>

\* FirstSend as it would be if the loop were entered before the first send
FirstSend_waitsFirst(s) ==
  /\ Running /\ pc[s] = "open"
  /\ pc' = [pc EXCEPT ![s] = "waiting"]
  /\ UNCHANGED <<quit, snapVars, srvVars, goVars, wg, ctxDone, started, inflight, wire,
                 connClosed, exitCause, lastErr>>

\* os.Hostname succeeds; the first sendSnapshot() call begins
FirstSend(s) ==
  /\ Running /\ pc[s] = "open"
  /\ pc' = [pc EXCEPT ![s] = "sending"]
  /\ started' = [started EXCEPT ![s] = @ + 1]
  /\ inflight' = [inflight EXCEPT ![s] = "initial"]
  /\ UNCHANGED <<quit, snapVars, srvVars, goVars, wg, ctxDone, wire, connClosed, exitCause,
                 lastErr>>

\* sendSnapshot returns nil: conn.WriteJSON(rs) wrote the Snapshot; the
\* handler enters (or re-enters) the select of the for loop
SendOK(s) ==
  /\ Running /\ pc[s] = "sending"
  /\ pc' = [pc EXCEPT ![s] = "waiting"]
  /\ wire' = [wire EXCEPT ![s] = Append(@, Snapshot(inflight[s]))]
  /\ inflight' = [inflight EXCEPT ![s] = "none"]
  /\ UNCHANGED <<quit, snapVars, srvVars, goVars, wg, ctxDone, started, connClosed, exitCause,
                 lastErr>>

\* SendFail as it would be if the failure cancelled every Session
SendFail_cancelsAll(s, err) ==
  /\ Running /\ pc[s] = "sending"
  /\ pc' = [pc EXCEPT ![s] = "exited"]
  /\ wire' = [wire EXCEPT ![s] = Append(@, sendClose(err))]
  /\ inflight' = [inflight EXCEPT ![s] = "none"]
  /\ connClosed' = [connClosed EXCEPT ![s] = TRUE]
  /\ exitCause' = [exitCause EXCEPT ![s] = "sendfail"]
  /\ lastErr' = [lastErr EXCEPT ![s] = err]
  /\ ctxDone' = [o \in Sessions |-> TRUE]
  /\ UNCHANGED <<quit, snapVars, srvVars, goVars, wg, started>>

\* SendFail as it would be if the loop went on after sendClose
SendFail_keepsLooping(s, err) ==
  /\ Running /\ pc[s] = "sending"
  /\ pc' = [pc EXCEPT ![s] = "waiting"]
  /\ wire' = [wire EXCEPT ![s] = Append(@, sendClose(err))]
  /\ inflight' = [inflight EXCEPT ![s] = "none"]
  /\ exitCause' = [exitCause EXCEPT ![s] = "sendfail"]
  /\ lastErr' = [lastErr EXCEPT ![s] = err]
  /\ UNCHANGED <<quit, snapVars, srvVars, goVars, wg, started, connClosed,
                 ctxDone>>

\* sendSnapshot returns err (a gopsutil call or WriteJSON failed):
\* sendClose(conn, err), return (deferred conn.Close)
SendFail(s, err) ==
  /\ Running /\ pc[s] = "sending"
  /\ pc' = [pc EXCEPT ![s] = "exited"]
  /\ wire' = [wire EXCEPT ![s] = Append(@, sendClose(err))]
  /\ inflight' = [inflight EXCEPT ![s] = "none"]
  /\ connClosed' = [connClosed EXCEPT ![s] = TRUE]
  /\ exitCause' = [exitCause EXCEPT ![s] = "sendfail"]
  /\ lastErr' = [lastErr EXCEPT ![s] = err]
  /\ ctxDone' = [ctxDone EXCEPT ![s] = TRUE]
  /\ UNCHANGED <<quit, snapVars, srvVars, goVars, wg, started>>

\* which cases of the select can be taken.  time.After(1s) is created on
\* entry to the select, so a context that is already done wins; otherwise the
\* goroutine is woken by whichever event happens first.
TimerCaseReady_ignoresCtx(s) == pc[s] = "waiting"
\* the timer case as a ticker running beside the send would make it
TimerCaseReady_whileSending(s) == pc[s] \in {"waiting", "sending"} /\ ~ctxDone[s]
TimerCaseReady(s) == pc[s] = "waiting" /\ ~ctxDone[s]
CtxCaseReady(s) == pc[s] = "waiting" /\ ctxDone[s]

\* case <-time.After(1 * time.Second): the next sendSnapshot() call begins
TimerBranch(s) ==
  /\ Running /\ TimerCaseReady(s)
  /\ started[s] < MaxSends
  /\ pc' = [pc EXCEPT ![s] = "sending"]
  /\ started' = [started EXCEPT ![s] = @ + 1]
  /\ inflight' = [inflight EXCEPT ![s] = "tick"]
  /\ UNCHANGED <<quit, snapVars, srvVars, goVars, wg, ctxDone, wire, connClosed, exitCause,
                 lastErr>>

\* CtxBranch as it would be if it called sendClose before returning
CtxBranch_sendsClose(s) ==
  /\ Running /\ CtxCaseReady(s)
  /\ pc' = [pc EXCEPT ![s] = "exited"]
  /\ wire' = [wire EXCEPT ![s] = Append(@, sendClose("context canceled"))]
  /\ connClosed' = [connClosed EXCEPT ![s] = TRUE]
  /\ exitCause' = [exitCause EXCEPT ![s] = "ctx"]
  /\ UNCHANGED <<quit, snapVars, srvVars, goVars, wg, ctxDone, started,
                 inflight, lastErr>>

\* case <-r.Context().Done(): log, return (deferred conn.Close)
CtxBranch(s) ==
  /\ Running /\ CtxCaseReady(s)
  /\ pc' = [pc EXCEPT ![s] = "exited"]
  /\ connClosed' = [connClosed EXCEPT ![s] = TRUE]
  /\ exitCause' = [exitCause EXCEPT ![s] = "ctx"]
  /\ UNCHANGED <<quit, snapVars, srvVars, goVars, wg, ctxDone, started, inflight, wire,
                 lastErr>>

\* net/http cancels the request context: the client's connection closed (it
\* also cancels it when the handler returns, see the returning actions).
\* Nothing in main.go cancels it: srv.Shutdown leaves request contexts alone.
RequestContextCancel(s) ==
  /\ Running /\ pc[s] \in {"accepted"} \cup ActivePcs /\ ~ctxDone[s]
  /\ ctxDone' = [ctxDone EXCEPT ![s] = TRUE]
  /\ UNCHANGED <<quit, snapVars, srvVars, goVars, wg, pc, started, inflight, wire, connClosed,
                 exitCause, lastErr>>

\* ------------------------------------------------- serve(): main goroutine

\* srv.ListenAndServe() binds the endpoint and serves
ListenOK ==
  /\ Running /\ srvPc = "start" /\ goPc = "waitSignal"
  /\ srvPc' = "listen"
  /\ listening' = TRUE
  /\ UNCHANGED <<quit, snapVars, serveResult, exitStatus, goVars, wg, sessVars>>

\* srv.ListenAndServe() returns an error that is not http.ErrServerClosed
\* (bind or accept failure): the test of errors.Is is false, so serve() goes
\* on to the receive  err = <-shutdownError
ListenFail ==
  /\ Running /\ srvPc \in {"start", "listen"} /\ goPc = "waitSignal"
  /\ srvPc' = "recv"
  /\ listening' = FALSE
  /\ UNCHANGED <<quit, snapVars, serveResult, exitStatus, goVars, wg, sessVars>>

\* srv.Shutdown was called, so ListenAndServe returns http.ErrServerClosed;
\* errors.Is(err, http.ErrServerClosed) is true and serve() executes
\* "return err" without receiving from shutdownError
ServeClosed ==
  /\ Running /\ srvPc \in {"start", "listen"} /\ goPc # "waitSignal"
  /\ srvPc' = "returned"
  /\ serveResult' = "ErrServerClosed"
  /\ UNCHANGED <<quit, snapVars, listening, exitStatus, goVars, wg, sessVars>>

\* ------------------------------------------------- serve(): shutdown goroutine

\* Signal as it would be if Shutdown left the listeners open
Signal_keepsListening ==
  /\ Running /\ goPc = "waitSignal"
  /\ goPc' = "shutdown"
  /\ elapsed' = 0
  /\ UNCHANGED <<quit, snapVars, srvVars, shutdownErr, wg, sessVars>>

\* s := <-quit; context.WithTimeout(.., 20s); srv.Shutdown(ctx) begins: the
\* listeners are closed.  Nothing here touches a Session or its context.
Signal ==
  /\ Running /\ goPc = "waitSignal"
  /\ goPc' = "shutdown"
  /\ elapsed' = 0
  /\ listening' = FALSE
  /\ UNCHANGED <<quit, snapVars, srvPc, serveResult, exitStatus, shutdownErr, wg, sessVars>>

\* LateSignal as it would be if the goroutine read quit in a loop
LateSignal_restarts ==
  /\ Running /\ goPc \in {"wgWait", "sendNil"}
  /\ goPc' = "shutdown"
  /\ elapsed' = 0
  /\ UNCHANGED <<quit, snapVars, srvVars, shutdownErr, wg, sessVars>>

\* a further SIGINT/SIGTERM: signal.Notify puts it into quit when the buffer
\* has room (else drops it); the goroutine receives from quit only once
LateSignal ==
  /\ Running /\ goPc # "waitSignal" /\ quit = 0
  /\ quit' = 1
  /\ UNCHANGED <<snapVars, srvVars, goVars, wg, sessVars>>

Min(a, b) == IF a < b THEN a ELSE b

\* time passes while srv.Shutdown(ctx) waits for a tracked connection, up
\* to the expiry of ctx (with none to wait for it returns at its first poll)
Tick ==
  /\ Running /\ goPc = "shutdown" /\ Tracked # {} /\ elapsed < GraceTimeout
  /\ elapsed' = Min(elapsed + TickUnits, GraceTimeout)
  /\ UNCHANGED <<quit, snapVars, srvVars, goPc, shutdownErr, wg, sessVars>>

\* srv.Shutdown(ctx) returns nil: every connection net/http tracks is idle.
\* Hijacked (upgraded) connections are not tracked and not waited for.
ShutdownOK ==
  /\ Running /\ goPc = "shutdown" /\ Tracked = {}
  /\ shutdownErr' = "nil"
  /\ goPc' = "wgWait"
  /\ UNCHANGED <<quit, snapVars, srvVars, elapsed, wg, sessVars>>

\* srv.Shutdown(ctx) returns ctx.Err(): the context expired first
ShutdownTimeout ==
  /\ Running /\ goPc = "shutdown" /\ Tracked # {} /\ elapsed = GraceTimeout
  /\ shutdownErr' = "DeadlineExceeded"
  /\ goPc' = "sendErr"
  /\ UNCHANGED <<quit, snapVars, srvVars, elapsed, wg, sessVars>>

\* shutdownError <- err  meets  err = <-shutdownError; if err != nil { return err }
SendErr ==
  /\ Running /\ goPc = "sendErr" /\ srvPc = "recv"
  /\ goPc' = "wgWait"
  /\ srvPc' = "returned"
  /\ serveResult' = shutdownErr
  /\ UNCHANGED <<quit, snapVars, listening, exitStatus, shutdownErr, elapsed, wg, sessVars>>

\* app.wg.Wait() returns: the counter is zero
WgWait ==
  /\ Running /\ goPc = "wgWait" /\ wg = 0
  /\ goPc' = "sendNil"
  /\ UNCHANGED <<quit, snapVars, srvVars, shutdownErr, elapsed, wg, sessVars>>

\* shutdownError <- nil  meets  err = <-shutdownError; ...; return nil
SendNil ==
  /\ Running /\ goPc = "sendNil" /\ srvPc = "recv"
  /\ goPc' = "done"
  /\ srvPc' = "returned"
  /\ serveResult' = "nil"
  /\ UNCHANGED <<quit, snapVars, listening, exitStatus, shutdownErr, elapsed, wg, sessVars>>

\* ------------------------------------------------------------------ main()

\* err := app.serve(); if err != nil { log.Fatal(err) }; the process ends and
\* every goroutine still running ends with it
MainExit ==
  /\ Running /\ srvPc = "returned"
  /\ exitStatus' = IF serveResult = "nil" THEN "ok" ELSE "fatal"
  /\ pc' = [s \in Sessions |->
              IF pc[s] \in {"accepted"} \cup ActivePcs THEN "killed" ELSE pc[s]]
  /\ goPc' = IF goPc = "done" THEN goPc ELSE "killed"
  /\ UNCHANGED <<quit, snapVars, srvPc, serveResult, listening, shutdownErr, elapsed, wg, ctxDone,
                 started, inflight, wire, connClosed, exitCause, lastErr>>

\* ------------------------------------------------------------ sendSnapshot
\* One call of the sendSnapshot closure, from the values the gopsutil calls
\* return to the message conn.WriteJSON encodes.

\* a Go slice: nil until the first append
NilSlice == [isNil |-> TRUE, elems |-> <<>>]
GoAppend(sl, x) == [isNil |-> FALSE, elems |-> Append(sl.elems, x)]

\* encoding/json: a nil slice encodes as null, any other slice as an array
JsonNull == [kind |-> "null", items |-> <<>>]
JsonArray(elems) == [kind |-> "array", items |-> elems]
EncodeSlice(sl) == IF sl.isNil THEN JsonNull ELSE JsonArray(sl.elems)

\* what disk.Partitions and process.Processes can return: per partition
\* whether disk.Usage succeeds, per process whether p.Name and p.MemoryInfo
\* succeed and its cpuPercent; pids and devices number the entries
SeqsUpTo(S, n) == UNION {[1..k -> S] : k \in 0..n}
ProvidedPartitions == SeqsUpTo([usageOk : BOOLEAN], MaxParts)
ProvidedProcesses ==
  SeqsUpTo([nameOk : BOOLEAN, memOk : BOOLEAN, cpu : 0..MaxCpu], MaxProcs)

\* var diskPartitions []DiskPartition; for ... { usage, err := disk.Usage(..);
\* if err != nil { continue }; diskPartitions = append(diskPartitions, ..) }
RECURSIVE GatherPartitions(_, _, _)
GatherPartitions(parts, i, acc) ==
  IF i > Len(parts) THEN acc
  ELSE IF ~parts[i].usageOk THEN GatherPartitions(parts, i + 1, acc)
  ELSE GatherPartitions(parts, i + 1, GoAppend(acc, [device |-> i]))

\* var processInfos []ProcessInfo; for ... { name, err := p.Name(); if err !=
\* nil { continue }; ...; memInfo, err := p.MemoryInfo(); if err != nil {
\* continue }; processInfos = append(processInfos, ..) }
RECURSIVE GatherProcesses(_, _, _)
GatherProcesses(procs, i, acc) ==
  IF i > Len(procs) THEN acc
  ELSE IF ~procs[i].nameOk THEN GatherProcesses(procs, i + 1, acc)
  ELSE IF ~procs[i].memOk THEN GatherProcesses(procs, i + 1, acc)
  ELSE GatherProcesses(procs, i + 1,
                       GoAppend(acc, [pid |-> i, cpu |-> procs[i].cpu]))

\* the less function with the comparison turned around
Less_ascending(a, b) == a.cpu < b.cpu

\* less of sort.Slice: processInfos[i].CPUPercent > processInfos[j].CPUPercent
Less(a, b) == a.cpu > b.cpu

Swap(a, i, j) == [a EXCEPT ![i] = a[j], ![j] = a[i]]

\* sort.Slice sorts a slice of fewer than 12 elements by insertion:
\* for i := 1; i < n; i++ { for j := i; j > 0 && less(j, j-1); j-- { swap } }
RECURSIVE InsertInto(_, _)
InsertInto(a, j) ==
  IF j > 1 /\ Less(a[j], a[j - 1]) THEN InsertInto(Swap(a, j, j - 1), j - 1)
  ELSE a

RECURSIVE InsertionSort(_, _)
InsertionSort(a, i) ==
  IF i > Len(a) THEN a ELSE InsertionSort(InsertInto(a, i), i + 1)

SortSlice(sl) == [sl EXCEPT !.elems = InsertionSort(@, 2)]

NoProvided == [partitions |-> <<>>, processes |-> <<>>]
NoResources == [Partitions |-> NilSlice, Processes |-> NilSlice]
NoJson == [partitions |-> JsonNull, processes |-> JsonNull]

\* no sendSnapshot call is looked into
SnapIdle ==
  /\ provided = NoProvided
  /\ rs = NoResources
  /\ json = NoJson
  /\ snapPc = "idle"

\* the gopsutil calls have returned
SnapInit ==
  /\ MainInit
  /\ provided \in [partitions : ProvidedPartitions, processes : ProvidedProcesses]
  /\ rs = NoResources
  /\ json = NoJson
  /\ snapPc = "input"

\* the two loops, sort.Slice and the Resources literal
Gather ==
  /\ snapPc = "input"
  /\ rs' = [Partitions |-> GatherPartitions(provided.partitions, 1, NilSlice),
            Processes |->
              SortSlice(GatherProcesses(provided.processes, 1, NilSlice))]
  /\ snapPc' = "gathered"
  /\ UNCHANGED <<srvVars, goVars, wg, sessVars, quit, provided, json>>

\* return conn.WriteJSON(rs)
WriteJSON ==
  /\ snapPc = "gathered"
  /\ json' = [partitions |-> EncodeSlice(rs.Partitions),
              processes |-> EncodeSlice(rs.Processes)]
  /\ snapPc' = "written"
  /\ UNCHANGED <<srvVars, goVars, wg, sessVars, quit, provided, rs>>

SnapNext == Gather \/ WriteJSON

SnapSpec == SnapInit /\ [][SnapNext]_vars

Init == MainInit /\ SnapIdle

Next ==
  \/ \E s \in Sessions : Accept(s)
  \/ \E s \in Sessions : UpgradeFail(s)
  \/ \E s \in Sessions : Upgrade(s)
  \/ \E s \in Sessions : HostnameFail(s)
  \/ \E s \in Sessions : FirstSend(s)
  \/ \E s \in Sessions : SendOK(s)
  \/ \E s \in Sessions : \E err \in SnapshotErrs : SendFail(s, err)
  \/ \E s \in Sessions : TimerBranch(s)
  \/ \E s \in Sessions : CtxBranch(s)
  \/ \E s \in Sessions : RequestContextCancel(s)
  \/ ListenOK
  \/ ListenFail
  \/ ServeClosed
  \/ Signal
  \/ LateSignal
  \/ Tick
  \/ ShutdownOK
  \/ ShutdownTimeout
  \/ SendErr
  \/ WgWait
  \/ SendNil
  \/ MainExit

Spec == Init /\ [][Next]_vars

\* ------------------------------------------------------------------ claims

\* serve() has just returned to main in this step
ServeReturns == srvPc # "returned" /\ srvPc' = "returned"

\* C1: the step that handles the termination signal (Running -> Draining)
\* signals cancellation to every Session active at that moment, so that each
\* of them can observe it and terminate.
C1_CancellationBroadcast ==
  [][(goPc = "waitSignal" /\ goPc' # "waitSignal") =>
       \A s \in Active : ctxDone'[s]]_vars

\* C2: when serve() returns after a termination signal with every Session
\* gone, nothing tracked left and the grace period not expired, it returns nil.
C2_GracefulReturnsNil ==
  (/\ srvPc = "returned"
   /\ Active = {} /\ Tracked = {}
   /\ elapsed < GraceTimeout
   /\ shutdownErr # "DeadlineExceeded") => serveResult = "nil"

\* C3: at the step in which serve() returns, the result is a failure (forced)
\* exactly when the grace period has expired with a Session still active.
C3_ForcedIffActiveAtExpiry ==
  [][ServeReturns =>
       ((serveResult' # "nil") <=> (elapsed = GraceTimeout /\ Active # {}))]_vars

\* C4: serve() does not return while a Session is active unless the grace
\* period has expired, and what it then returns is the forced outcome.
C4_NoResultBeforeExpiry ==
  [][(ServeReturns /\ Active # {}) =>
       (elapsed = GraceTimeout /\ serveResult' # "nil")]_vars

\* C5: the Registry's count (the WaitGroup counter) equals the number of
\* Sessions that are open and whose handler has not returned.
C5_RegistryCountsSessions == wg = Cardinality(Active)

\* C6: the step in which a Session exits, on whichever path, decrements the
\* Registry counter by exactly one.
C6_DeregisterExactlyOnce ==
  [][\A s \in Sessions :
       (pc[s] \in ActivePcs /\ pc'[s] = "exited") => wg' = wg - 1]_vars

\* C7: a Session whose wait ended on the cancellation case has written exactly
\* one close message, with the normal-closure code (1000).
C7_NormalCloseOnCancel ==
  \A s \in Sessions :
    exitCause[s] = "ctx" =>
      /\ Len(Closes(s)) = 1
      /\ Closes(s)[1].code = 1000

\* C8: a Session ended by a failing sendSnapshot has terminated, the last and
\* only close message it wrote has the internal-error code and the failure's
\* description as reason, and no sendSnapshot was begun after the failing one.
C8_FailureClosesWithInternalError ==
  \A s \in Sessions :
    exitCause[s] = "sendfail" =>
      /\ pc[s] = "exited"
      /\ lastErr[s] \in SnapshotErrs
      /\ Len(wire[s]) >= 1
      /\ wire[s][Len(wire[s])] =
           [type |-> "close", kind |-> "none", code |-> 1011, reason |-> lastErr[s]]
      /\ Len(Closes(s)) = 1
      /\ started[s] = Len(Snapshots(s)) + 1
      /\ inflight[s] = "none"

\* a Session failed on an interval-triggered tick with the Provider's error
C8_Witness ==
  \E s \in Sessions :
    /\ exitCause[s] = "sendfail" /\ started[s] = 2
    /\ lastErr[s] = "provider error"

\* C9 as stated: once a Session's cancellation is signaled, it begins no
\* sendSnapshot call any more.
C9_NoNewSendAfterCancel ==
  [][\A s \in Sessions : ctxDone[s] => started'[s] = started[s]]_vars

\* C9 as amended: once a Session's cancellation is signaled, it begins no
\* interval-triggered sendSnapshot (only the initial one, if still to come),
\* and while it waits between ticks it writes nothing more and can only exit.
C9_NoTickAfterCancel ==
  [][\A s \in Sessions :
       ctxDone[s] =>
         /\ started[s] >= 1 => started'[s] = started[s]
         /\ inflight'[s] # "tick" \/ inflight[s] = "tick"
         /\ pc[s] = "waiting" =>
              /\ wire'[s] = wire[s]
              /\ pc'[s] \in {"waiting", "exited", "killed"}]_vars

\* a Session left its wait through the cancellation case after one Snapshot
C9_Witness ==
  \E s \in Sessions :
    exitCause[s] = "ctx" /\ Len(Snapshots(s)) = 1 /\ started[s] = 1

\* C10: the first Snapshot a Session writes is the initial one and every later
\* one is interval-triggered; the Session never waits, and never begins an
\* interval-triggered send, before the initial Snapshot is written.
C10_FirstSnapshotImmediate ==
  \A s \in Sessions :
    /\ \A i \in 1..Len(Snapshots(s)) :
         Snapshots(s)[i].kind = IF i = 1 THEN "initial" ELSE "tick"
    /\ pc[s] = "waiting" => Len(Snapshots(s)) >= 1
    /\ inflight[s] = "tick" => Len(Snapshots(s)) >= 1
    /\ pc[s] = "open" => started[s] = 0

\* a Session has written its initial and an interval-triggered Snapshot
C10_Witness ==
  \E s \in Sessions : Len(Snapshots(s)) >= 2

\* C11: a Session begins a sendSnapshot call only when none of its own is
\* running, one call at a time, and it enters the wait for the next tick only
\* from a send that has finished.
C11_OneSendInFlight ==
  [][\A s \in Sessions :
       /\ started'[s] # started[s] =>
            /\ pc[s] # "sending" /\ inflight[s] = "none"
            /\ started'[s] = started[s] + 1
            /\ pc'[s] = "sending"
       /\ (pc'[s] = "waiting" /\ pc[s] # "waiting") =>
            (pc[s] = "sending" /\ inflight'[s] = "none")]_vars

\* a Session's second send is running, after its first Snapshot was written
C11_Witness ==
  \E s \in Sessions :
    pc[s] = "sending" /\ inflight[s] = "tick" /\ Len(Snapshots(s)) = 1

\* C12 as stated: once the signal has been handled the set of active Sessions
\* never gains a member.
C12_NoSessionOpenedAfterRunning ==
  [][goPc # "waitSignal" => Active' \subseteq Active]_vars

\* C12 as amended: once the signal has been handled no connection is accepted
\* and the counter is not incremented; the connections being served (upgraded
\* or still in the handshake) never gain a member.
C12_NoAcceptAfterRunning ==
  [][goPc # "waitSignal" =>
       /\ ~listening'
       /\ \A s \in Sessions : pc[s] = "idle" => pc'[s] = "idle"
       /\ (Tracked' \cup Active') \subseteq (Tracked \cup Active)
       /\ wg' <= wg]_vars

\* draining with one Session active and a connection that was never accepted
C12_Witness ==
  /\ goPc # "waitSignal"
  /\ \E s, o \in Sessions : pc[s] \in ActivePcs /\ pc[o] = "idle"

\* C13: when srv.Shutdown has returned an error and serve() has returned,
\* what serve() returned is that error.
C13_ShutdownErrorReturned ==
  (srvPc = "returned" /\ shutdownErr \notin {"none", "nil"}) =>
    serveResult = shutdownErr

\* the process-wide shutdown state, read off the two goroutines of serve()
ShutdownState ==
  IF goPc = "waitSignal" THEN "Running"
  ELSE IF srvPc = "returned" THEN "Stopped"
  ELSE "Draining"

StateRank(st) == CASE st = "Running" -> 0 [] st = "Draining" -> 1 [] st = "Stopped" -> 2

\* C14: the shutdown state never moves to an earlier state, Stopped is never
\* left, and srv.Shutdown is entered only from the wait for the first signal,
\* whatever signals arrive later.
C14_StateOnlyForward ==
  [][/\ StateRank(ShutdownState') >= StateRank(ShutdownState)
     /\ (goPc' = "shutdown" /\ goPc # "shutdown") => goPc = "waitSignal"
     /\ goPc # "waitSignal" => goPc' # "waitSignal"]_vars

\* a second signal arrived and the state is Stopped
C14_Witness == quit = 1 /\ ShutdownState = "Stopped"

\* C15: the step in which a Session ends on a failed sendSnapshot changes
\* nothing of any other connection, of the server or of the shutdown sequence.
C15_FailureIsLocal ==
  [][\A s \in Sessions :
       (pc[s] = "sending" /\ pc'[s] = "exited") =>
         /\ \A o \in Sessions \ {s} :
              /\ pc'[o] = pc[o] /\ ctxDone'[o] = ctxDone[o]
              /\ started'[o] = started[o] /\ inflight'[o] = inflight[o]
              /\ wire'[o] = wire[o] /\ connClosed'[o] = connClosed[o]
              /\ exitCause'[o] = exitCause[o] /\ lastErr'[o] = lastErr[o]
         /\ UNCHANGED <<srvVars, goVars, wg, quit>>]_vars

\* one Session ended on a failure while another one goes on waiting, its
\* context not cancelled
C15_Witness ==
  \E s, o \in Sessions :
    /\ s # o
    /\ exitCause[s] = "sendfail"
    /\ pc[o] = "waiting" /\ ~ctxDone[o]

\* the pids of the processes sendSnapshot keeps (p.Name and p.MemoryInfo
\* both succeed)
KeptPids ==
  {i \in 1..Len(provided.processes) :
     provided.processes[i].nameOk /\ provided.processes[i].memOk}
KeptDevices ==
  {i \in 1..Len(provided.partitions) : provided.partitions[i].usageOk}

\* C16 as stated: in the message written, every process has a cpuPercent
\* greater than that of the process after it.
C16_StrictlyDescending ==
  snapPc = "written" =>
    \A i \in 1..(Len(json.processes.items) - 1) :
      json.processes.items[i].cpu > json.processes.items[i + 1].cpu

\* C16 as amended: in the message written, the processes are exactly the kept
\* ones, each once, and every process has a cpuPercent greater than or equal
\* to that of the process after it.
C16_Descending ==
  snapPc = "written" =>
    LET ps == json.processes.items IN
      /\ Len(ps) = Cardinality(KeptPids)
      /\ {ps[i].pid : i \in 1..Len(ps)} = KeptPids
      /\ \A i \in 1..Len(ps) : ps[i].cpu = provided.processes[ps[i].pid].cpu
      /\ \A i \in 1..(Len(ps) - 1) : ps[i].cpu >= ps[i + 1].cpu

\* three processes written, the last one returned first, the other two with
\* the same cpuPercent
C16_Witness ==
  /\ snapPc = "written"
  /\ Len(json.processes.items) = 3
  /\ json.processes.items[1].pid = 3
  /\ json.processes.items[2].cpu = json.processes.items[3].cpu

\* C17: when no partition and no process is kept, the message written carries
\* both keys as arrays (empty ones), not as null.
C17_EmptyArraysNotNull ==
  (snapPc = "written" /\ KeptPids = {} /\ KeptDevices = {}) =>
    /\ json.partitions = JsonArray(<<>>)
    /\ json.processes = JsonArray(<<>>)

\* C18: a handler whose upgrade failed has ended without a Session: the step
\* leaves the counter alone, no sendSnapshot call was begun, nothing was
\* written on the connection, and nothing of that follows later.
C18_HandshakeFailureNoSession ==
  [][\A s \in Sessions :
       pc'[s] = "rejected" =>
         /\ pc[s] \in {"accepted", "rejected"}
         /\ wg' = wg
         /\ started'[s] = 0 /\ inflight'[s] = "none"
         /\ wire'[s] = <<>>
         /\ ~connClosed'[s]]_vars

\* one upgrade failed while another connection became a Session
C18_Witness ==
  \E s, o \in Sessions : pc[s] = "rejected" /\ pc[o] \in ActivePcs

\* C19: a Session that left its wait because the request context was done
\* (peer gone) has terminated having written every Snapshot it began, and
\* nothing else: no further Snapshot and no close message.
C19_PeerGoneNoCloseFrame ==
  \A s \in Sessions :
    exitCause[s] = "ctx" =>
      /\ pc[s] = "exited"
      /\ inflight[s] = "none"
      /\ Len(Closes(s)) = 0
      /\ Len(wire[s]) = started[s]

\* a Session left its wait on the peer-gone case after two Snapshots
C19_Witness ==
  \E s \in Sessions : exitCause[s] = "ctx" /\ Len(Snapshots(s)) = 2

\* C20: a handler that returns after the upgrade, on whichever path, has
\* closed its connection, and on a closed connection nothing is written and
\* it stays closed.
C20_ClosedOnEveryExit ==
  [][\A s \in Sessions :
       /\ pc'[s] = "exited" => connClosed'[s]
       /\ connClosed[s] => (connClosed'[s] /\ wire'[s] = wire[s])]_vars

\* two connections closed on different exit paths
C20_Witness ==
  \E s, o \in Sessions :
    /\ connClosed[s] /\ exitCause[s] = "hostname"
    /\ connClosed[o] /\ exitCause[o] = "ctx"

\* C21: serve() returns after a termination signal only when srv.Shutdown
\* has returned and, unless Shutdown's error is what it returns, app.wg.Wait
\* has completed; the value returned is the outcome of that sequence.
C21_ReturnsAfterDrain ==
  [][(ServeReturns /\ goPc # "waitSignal") =>
       /\ shutdownErr' # "none"
       /\ serveResult' = shutdownErr'
       /\ (shutdownErr' = "nil" => goPc' = "done")]_vars

\* C22: the step in which ListenAndServe returns without srv.Shutdown having
\* been called (so its error is not http.ErrServerClosed) is the step in
\* which serve() returns, and it returns that error.
C22_ListenErrorReturned ==
  [][(/\ srvPc \in {"start", "listen"}
      /\ srvPc' \notin {"start", "listen"}
      /\ goPc = "waitSignal") =>
       (srvPc' = "returned" /\ serveResult' = "ListenError")]_vars

\* C23: the shutdown goroutine is never left at a send on shutdownError that
\* serve() will not receive (serve() has returned), and a send that was
\* received is its last: after it the goroutine is done.
C23_GoroutineNeverStuck ==
  [][/\ ~(goPc' \in {"sendErr", "sendNil"} /\ srvPc' = "returned")
     /\ (goPc \in {"sendErr", "sendNil"} /\ goPc' \notin {goPc, "killed"})
          => goPc' = "done"]_vars

\* C24: a connection carries at most one close message, and once it carries
\* one nothing more is written on it.
C24_OneCloseFrameLast ==
  [][\A s \in Sessions :
       /\ Len(SelectSeq(wire'[s], LAMBDA m : m.type = "close")) <= 1
       /\ Len(Closes(s)) >= 1 => wire'[s] = wire[s]]_vars

\* one Session closed by the hostname failure, another by a failed send that
\* followed a Snapshot; each carries its one close message last
C24_Witness ==
  \E s, o \in Sessions :
    /\ exitCause[s] = "hostname" /\ Len(Closes(s)) = 1 /\ Len(wire[s]) = 1
    /\ exitCause[o] = "sendfail" /\ Len(Closes(o)) = 1 /\ Len(wire[o]) = 2
    /\ wire[o][2].type = "close"

====
